---- MODULE Spec2Model ----
(***************************************************************************)
(* landsat8: the concurrent acquisition pipeline of src/landsat8.go.       *)
(* One driver (main), nworkers worker goroutines, one result sink, two     *)
(* buffered channels (queue, ids), the metadata cache files and the result *)
(* file.  Every file or network operation returns with success or with an  *)
(* error, chosen by the environment.                                       *)
(***************************************************************************)
EXTENDS Integers, Sequences, FiniteSets, TLC

\* ---------------------------------------------------------------- bounds
MaxRows == 2
MaxWorkers == 2
MaxRetries == 2
MaxBands == 1

\* ------------------------------------------------------- sample inputs
\* A metadata line is <<key, text>>; a document is a sequence of lines.
NightDoc == << <<"SUN_ELEVATION", "-3.7">> >>
DayDoc == << <<"GROUP", "x">>, <<"SUN_ELEVATION", "15.2">> >>

\* The document the remote endpoint serves under a base URL.
Remote(base) == IF base = "uD/" THEN DayDoc ELSE NightDoc

\* A catalog row: the positional fields the program reads.
Row(id, ts, cc, level, url) ==
  [id |-> id, ts |-> ts, cc |-> cc, level |-> level, url |-> url]

Rows ==
  { Row(1, "bad", "1.5", "L2", "uN/index.html"),
    Row(1, "d1", "1.5", "L2", "uN/index.html"),
    Row(1, "d1", "n/a", "L1T", "uN/index.html"),
    Row(1, "d0", "1.5", "L1T", "uN/index.html"),
    Row(2, "d2", "1.5", "L1GT", "uN/"),
    Row(1, "d1", "1.5", "L1T", "uN/index.html"),
    Row(2, "d1", "1.5", "L1GT", "uD/index.html"),
    Row(2, "d1", "1.5", "L1T", "uN/") }

Ids == { r.id : r \in Rows }
NoRec == Row(0, "", "", "", "")

\* The band lists of at most MaxBands bands (band numbers 4, 5, ...).
BandLists == { [i \in 1..n |-> 3 + i] : n \in 0..MaxBands }

\* ------------------------------------------------------ pure functions
\* time.Parse(lstformat, s): the day number of a well-formed timestamp.
ParseTime(s) ==
  CASE s = "d0" -> [err |-> FALSE, t |-> 0]
    [] s = "d1" -> [err |-> FALSE, t |-> 1]
    [] s = "d2" -> [err |-> FALSE, t |-> 2]
    [] OTHER -> [err |-> TRUE, t |-> 0]

\* strconv.ParseFloat(s, 64), in tenths; on error the value is 0.
ParseFloat(s) ==
  CASE s = "1.5" -> [err |-> FALSE, v |-> 15]
    [] s = "15.2" -> [err |-> FALSE, v |-> 152]
    [] s = "-3.7" -> [err |-> FALSE, v |-> -37]
    [] s = "0" -> [err |-> FALSE, v |-> 0]
    [] OTHER -> [err |-> TRUE, v |-> 0]

\* strings.TrimSuffix(rec[10], "index.html")
TrimSuffix(u) ==
  CASE u = "uN/index.html" -> "uN/"
    [] u = "uD/index.html" -> "uD/"
    [] OTHER -> u

\* A faulty GetScene: an unrecognized level falls through as L1GT.
GetSceneAnyLevel(rec) ==
  LET accDate == ParseTime(rec.ts)
      cc == ParseFloat(rec.cc)
  IN  IF accDate.err THEN [err |-> "parse"]
      ELSE IF cc.err THEN [err |-> "parse"]
      ELSE [err |-> "nil", id |-> rec.id, acquisitionDate |-> accDate.t,
            baseUrl |-> TrimSuffix(rec.url)]

\* HttpRepository.GetScene: the error it returns and the scene it builds.
GetScene(rec) ==
  LET accDate == ParseTime(rec.ts)
      cc == ParseFloat(rec.cc)
  IN  IF accDate.err THEN [err |-> "parse"]
      ELSE IF cc.err THEN [err |-> "parse"]
      ELSE IF rec.level \notin {"L1T", "L1GT"} THEN [err |-> "UnexpectedLevel"]
      ELSE [err |-> "nil", id |-> rec.id, acquisitionDate |-> accDate.t,
            baseUrl |-> TrimSuffix(rec.url)]

\* A faulty Filtered: the test against the end of the window is missing.
FilteredBeforeOnly(acq, f, t) == acq < f

\* The date filter of the worker: true when the scene is skipped.
Filtered(acq, f, t) == acq < f \/ acq > t

\* The scan of httpScene.IsDay over the lines of the metadata document:
\* the first SUN_ELEVATION line decides; no such line leaves day false.
RECURSIVE ScanDay(_)
ScanDay(lines) ==
  IF lines = <<>> THEN FALSE
  ELSE IF Head(lines)[1] = "SUN_ELEVATION"
       THEN ParseFloat(Head(lines)[2]).v >= 0
       ELSE ScanDay(Tail(lines))

\* A file: whether it exists, and its lines.
Absent == [exists |-> FALSE, data |-> <<>>]
File(data) == [exists |-> TRUE, data |-> data]

\* A faulty get: a file found at the cache path does not stop the download.
getRefetch(file, remote, cache, netOk, createOk, copied, openOk) ==
  IF ~netOk THEN [res |-> "err", body |-> <<>>, file |-> file, net |-> TRUE]
  ELSE IF ~cache
       THEN [res |-> "ok", body |-> remote, file |-> file, net |-> TRUE]
  ELSE IF ~createOk
       THEN [res |-> "err", body |-> <<>>, file |-> file, net |-> TRUE]
  ELSE LET written == [exists |-> TRUE, data |-> SubSeq(remote, 1, copied)]
       IN  IF openOk
           THEN [res |-> "ok", body |-> written.data, file |-> written,
                 net |-> TRUE]
           ELSE [res |-> "err", body |-> <<>>, file |-> written, net |-> TRUE]

\* HttpRepository.get(url, cached, cache).  file is the file at the cache
\* path, remote the document at url; netOk, createOk, openOk are the
\* outcomes of http.Get, os.Create and os.Open, and copied the number of
\* lines io.Copy wrote (all of them when the copy succeeds).  The result
\* is "ok" with the body read, "err", or "panic" (res.Body of a nil
\* response); file is the file left at the cache path.
get(file, remote, cache, netOk, createOk, copied, openOk) ==
  IF ~file.exists
  THEN IF ~cache
       THEN IF netOk
            THEN [res |-> "ok", body |-> remote, file |-> file, net |-> TRUE]
            ELSE [res |-> "panic", body |-> <<>>, file |-> file, net |-> TRUE]
       ELSE IF ~netOk
            THEN [res |-> "err", body |-> <<>>, file |-> file, net |-> TRUE]
       ELSE IF ~createOk
            THEN [res |-> "err", body |-> <<>>, file |-> file, net |-> TRUE]
       ELSE LET written == File(SubSeq(remote, 1, copied))
            IN  IF openOk
                THEN [res |-> "ok", body |-> written.data, file |-> written,
                      net |-> TRUE]
                ELSE [res |-> "err", body |-> <<>>, file |-> written,
                      net |-> TRUE]
  ELSE IF openOk
       THEN [res |-> "ok", body |-> file.data, file |-> file, net |-> FALSE]
       ELSE [res |-> "err", body |-> <<>>, file |-> file, net |-> FALSE]

\* The repository main builds: metadata is cached, rasters are not.
NoCacheMeta == FALSE
CacheBands == FALSE

\* ---------------------------------------------------------------- state
VARIABLES
  nworkers,   \* worker count after coercion
  retries,    \* -retries
  bqa,        \* -bqa
  bands,      \* -b, the band list
  from,       \* -f
  to,         \* -t
  nread,      \* rows the csv reader has returned so far
  fields,     \* the row the driver holds
  mainpc,     \* the driver's position in main
  queue,      \* chan []string, capacity nworkers
  qclosed,    \* close(queue) happened
  ids,        \* chan string, capacity nworkers
  idsclosed,  \* close(ids) happened
  worker,     \* per worker goroutine: its locals
  sinkpc,     \* the sink goroutine's position
  rw,         \* the lines of the result file
  rwclosed,   \* rw.Close() happened
  cachefs,    \* the metadata cache files, by scene id
  crashed,    \* a goroutine panicked: the process is gone
  sent,       \* history: the identifiers sent on ids, in order
  failed      \* history: the receipts (by position) whose write failed

vars == <<nworkers, retries, bqa, bands, from, to, nread, fields, mainpc,
          queue, qclosed, ids, idsclosed, worker, sinkpc, rw, rwclosed,
          cachefs, crashed, sent, failed>>

config == <<nworkers, retries, bqa, bands, from, to>>
driver == <<nread, fields, mainpc>>
sink == <<sinkpc, rw, rwclosed, failed>>

Workers == 1..nworkers

\* if nworkers <= 0 { nworkers = 1 }
Coerce(n) == IF n <= 0 THEN 1 ELSE n

\* A worker between records, before its first one.
\* pc, rec, err, meta (scene.meta: <<>> is nil, <<b>> is &meta{day: b}), day,
\* rtrs and band (the index in bands) are the goroutine's locals.  The rest
\* is history of the current record: calls and fetches count the IsDay calls
\* and the metadata fetches they made, doc holds the document the
\* classification read, tries and fails count the attempts of the current
\* fetch-and-persist loop and those whose fetch failed, eff is the set of
\* effects performed, got the artifacts saved, end how the record ended.
Fresh ==
  [pc |-> "idle", rec |-> NoRec, err |-> "nil", meta |-> <<>>, day |-> FALSE,
   rtrs |-> 0, band |-> 0, calls |-> 0, fetches |-> 0, doc |-> <<>>,
   tries |-> 0, fails |-> 0, eff |-> {}, got |-> {}, end |-> "none"]

Init ==
  /\ \E n \in 0..MaxWorkers : nworkers = Coerce(n)
  /\ retries \in -1..MaxRetries
  /\ bqa \in BOOLEAN
  /\ bands \in BandLists
  /\ from = 1
  /\ to = 1
  /\ nread = 0
  /\ fields = NoRec
  /\ mainpc = "read"
  /\ queue = <<>>
  /\ qclosed = FALSE
  /\ ids = <<>>
  /\ idsclosed = FALSE
  /\ worker = [w \in Workers |-> Fresh]
  /\ sinkpc = "run"
  /\ rw = <<>>
  /\ rwclosed = FALSE
  /\ cachefs = [i \in Ids |-> Absent]
  /\ crashed = FALSE
  /\ sent = <<>>
  /\ failed = {}

\* ------------------------------------------------------------ the driver
\* csvr.Read() on a catalog of at most limit rows after the header, the
\* well-formed ones among rows: end of file, a malformed row (logged and
\* skipped), or a row.
ReadFrom(rows, limit) ==
  /\ ~crashed
  /\ mainpc = "read"
  /\ \/ /\ mainpc' = "close"
        /\ UNCHANGED <<nread, fields>>
     \/ /\ nread < limit
        /\ nread' = nread + 1
        /\ UNCHANGED <<mainpc, fields>>
     \/ /\ nread < limit
        /\ nread' = nread + 1
        /\ \E row \in rows : fields' = row
        /\ mainpc' = "send"
  /\ UNCHANGED <<config, queue, qclosed, ids, idsclosed, worker, sink,
                 cachefs, crashed, sent>>

\* The catalog feed loop on a catalog of at most MaxRows rows.
Read == ReadFrom(Rows, MaxRows)

\* A faulty Enqueue: the send does not wait for room in the channel.
EnqueueUnbounded ==
  /\ ~crashed
  /\ mainpc = "send"
  /\ queue' = Append(queue, fields)
  /\ fields' = NoRec
  /\ mainpc' = "read"
  /\ UNCHANGED <<config, nread, qclosed, ids, idsclosed, worker, sink,
                 cachefs, crashed, sent>>

\* queue <- fields
Enqueue ==
  /\ ~crashed
  /\ mainpc = "send"
  /\ Len(queue) < nworkers
  /\ queue' = Append(queue, fields)
  /\ fields' = NoRec
  /\ mainpc' = "read"
  /\ UNCHANGED <<config, nread, qclosed, ids, idsclosed, worker, sink,
                 cachefs, crashed, sent>>

\* close(queue)
CloseQueue ==
  /\ ~crashed
  /\ mainpc = "close"
  /\ qclosed' = TRUE
  /\ mainpc' = "wait"
  /\ UNCHANGED <<config, nread, fields, queue, ids, idsclosed, worker, sink,
                 cachefs, crashed, sent>>

\* A faulty WgDone: the driver does not wait for the workers.
WgDoneNoWait == TRUE

\* wg.Wait() returns: every worker goroutine ran its deferred wg.Done().
WgDone == \A w \in Workers : worker[w].pc = "exit"

\* wg.Wait(); close(ids)
CloseIds ==
  /\ ~crashed
  /\ mainpc = "wait"
  /\ WgDone
  /\ idsclosed' = TRUE
  /\ mainpc' = "wait2"
  /\ UNCHANGED <<config, nread, fields, queue, qclosed, ids, worker, sink,
                 cachefs, crashed, sent>>

\* wg2.Wait() returns: the sink goroutine ran its deferred wg2.Done().
Wg2Done == sinkpc = "exit"

\* wg2.Wait(); rw.Close()
CloseFile ==
  /\ ~crashed
  /\ mainpc = "wait2"
  /\ Wg2Done
  /\ rwclosed' = TRUE
  /\ mainpc' = "done"
  /\ UNCHANGED <<config, nread, fields, queue, qclosed, ids, idsclosed,
                 worker, sinkpc, rw, failed, cachefs, crashed, sent>>

\* -------------------------------------------------------------- the sink
\* One iteration of "for id := range ids": receive, then rw.WriteString.
\* A failed write is logged; it leaves nothing or a partial line.
SinkWrite ==
  /\ ~crashed
  /\ sinkpc = "run"
  /\ ids # <<>>
  /\ ids' = Tail(ids)
  /\ \E ok \in BOOLEAN, partial \in BOOLEAN :
       IF ok
       THEN /\ rw' = Append(rw, [id |-> Head(ids), full |-> TRUE, by |-> "sink"])
            /\ failed' = failed
       ELSE /\ rw' = IF partial
                     THEN Append(rw, [id |-> Head(ids), full |-> FALSE,
                                      by |-> "sink"])
                     ELSE rw
            /\ failed' = failed \cup {Len(sent) - Len(ids) + 1}
  /\ UNCHANGED <<config, driver, queue, qclosed, idsclosed, worker, sinkpc,
                 rwclosed, cachefs, crashed, sent>>

\* The range over ids ends: the channel is closed and empty.
SinkExit ==
  /\ ~crashed
  /\ sinkpc = "run"
  /\ ids = <<>>
  /\ idsclosed
  /\ sinkpc' = "exit"
  /\ UNCHANGED <<config, driver, queue, qclosed, ids, idsclosed, worker, rw,
                 rwclosed, failed, cachefs, crashed, sent>>

\* ----------------------------------------------------------- the workers
Scene(w) == GetScene(worker[w].rec)

\* The names of the artifacts a scene needs: metadata always, the QA raster
\* when requested, each band of the band list.
Artifacts ==
  {<<"MTL", 0>>} \cup (IF bqa THEN {<<"BQA", 0>>} ELSE {})
                 \cup {<<"B", bands[i]>> : i \in DOMAIN bands}

\* Where the closure goes after the loop of one artifact ended with break
\* (or was never entered): the next requested artifact, or the send.
AfterMeta == IF bqa THEN "bqa" ELSE IF bands # <<>> THEN "band" ELSE "emit"
AfterBQA == IF bands # <<>> THEN "band" ELSE "emit"
AfterBand(k) == IF k < Len(bands) THEN "band" ELSE "emit"

\* Entering the retry loop of the next stage: rtrs = retries.
Enter(r, stage, k) ==
  [r EXCEPT !.pc = stage, !.band = k, !.rtrs = retries, !.tries = 0, !.fails = 0]

\* The closure returns: the worker is back at "range queue".
Return(r, how) == [Fresh EXCEPT !.rec = r.rec, !.err = r.err, !.end = how]

\* A faulty Dequeue: the record is taken up but stays in the queue.
DequeuePeek(w) ==
  /\ ~crashed
  /\ worker[w].pc = "idle"
  /\ queue # <<>>
  /\ worker' = [worker EXCEPT ![w] = [Fresh EXCEPT !.pc = "resolve",
                                                   !.rec = Head(queue)]]
  /\ UNCHANGED <<config, driver, queue, qclosed, ids, idsclosed, sink,
                 cachefs, crashed, sent>>

\* for rec := range queue: receive the next record.
Dequeue(w) ==
  /\ ~crashed
  /\ worker[w].pc = "idle"
  /\ queue # <<>>
  /\ queue' = Tail(queue)
  /\ worker' = [worker EXCEPT ![w] = [Fresh EXCEPT !.pc = "resolve",
                                                   !.rec = Head(queue)]]
  /\ UNCHANGED <<config, driver, qclosed, ids, idsclosed, sink, cachefs,
                 crashed, sent>>

\* The range over queue ends: closed and empty; the deferred wg.Done() runs.
WorkerExit(w) ==
  /\ ~crashed
  /\ worker[w].pc = "idle"
  /\ queue = <<>>
  /\ qclosed
  /\ worker' = [worker EXCEPT ![w] = [Fresh EXCEPT !.pc = "exit"]]
  /\ UNCHANGED <<config, driver, queue, qclosed, ids, idsclosed, sink,
                 cachefs, crashed, sent>>

\* repo.GetScene(rec), then the date filter.
Resolve(w) ==
  /\ ~crashed
  /\ worker[w].pc = "resolve"
  /\ LET r == worker[w]
         s == Scene(w)
     IN  worker' = [worker EXCEPT ![w] =
           IF s.err # "nil" THEN Return([r EXCEPT !.err = s.err], "rejected")
           ELSE IF Filtered(s.acquisitionDate, from, to)
                THEN Return(r, "filtered")
                ELSE Enter(r, "classify", 0)]
  /\ UNCHANGED <<config, driver, queue, qclosed, ids, idsclosed, sink,
                 cachefs, crashed, sent>>

\* The results scene.GetMeta() can have in the current state: getMeta calls
\* get with the metadata cache file of the scene, under every outcome of
\* http.Get, os.Create, io.Copy and os.Open.
getMeta(s) ==
  { get(cachefs[s.id], Remote(s.baseUrl), ~NoCacheMeta, netOk, createOk,
        copied, openOk) :
      netOk \in BOOLEAN, createOk \in BOOLEAN, openOk \in BOOLEAN,
      copied \in 0..Len(Remote(s.baseUrl)) }

\* The outcomes of the local side of one attempt: os.Create(fpath) fails,
\* io.Copy fails, or both succeed.
Local == {"create", "copy", "ok"}

\* After the classification loop: "if 0 == rtrs" abandons, "if !day" goes on
\* to the downloads, a daytime scene is done.
Classified(r) ==
  IF r.rtrs = 0 THEN Return(r, "unclassified")
  ELSE IF ~r.day THEN [r EXCEPT !.pc = "mkdir"]
  ELSE Return(r, "day")

\* A faulty IsDay: the flag it computed is not kept on the scene.
IsDayForgets(m, g) ==
  IF g.res # "ok"
  THEN [meta |-> <<>>, day |-> FALSE, err |-> TRUE]
  ELSE [meta |-> <<>>, day |-> ScanDay(g.body), err |-> FALSE]

\* httpScene.IsDay on a scene whose meta is m, g being the result of the
\* GetMeta it makes when m is nil: the meta it leaves, the flag and the
\* error it returns.
IsDay(m, g) ==
  IF m = <<>>
  THEN IF g.res # "ok"
       THEN [meta |-> <<FALSE>>, day |-> FALSE, err |-> TRUE]
       ELSE [meta |-> <<ScanDay(g.body)>>, day |-> ScanDay(g.body), err |-> FALSE]
  ELSE [meta |-> m, day |-> m[1], err |-> FALSE]

\* One pass of "for rtrs = retries; rtrs > 0; rtrs--" around scene.IsDay(),
\* with the tests that follow the loop when it ends.
Classify(w) ==
  /\ ~crashed
  /\ worker[w].pc = "classify"
  /\ LET r == worker[w]
         s == Scene(w)
     IN  IF r.rtrs <= 0
         THEN /\ worker' = [worker EXCEPT ![w] = Classified(r)]
              /\ UNCHANGED <<cachefs, crashed>>
         ELSE \E g \in getMeta(s) :
                LET d == IsDay(r.meta, g)
                    fetch == r.meta = <<>>
                    q == [r EXCEPT !.meta = d.meta,
                                   !.calls = @ + 1,
                                   !.fetches = IF fetch THEN @ + 1 ELSE @,
                                   !.eff = @ \cup {"classify"}
                                             \cup (IF fetch THEN {"fetch"} ELSE {})]
                IN  IF fetch /\ g.res = "panic"
                    THEN /\ crashed' = TRUE
                         /\ worker' = [worker EXCEPT ![w] = [q EXCEPT !.end = "panic"]]
                         /\ UNCHANGED cachefs
                    ELSE /\ crashed' = crashed
                         /\ cachefs' = IF fetch
                                       THEN [cachefs EXCEPT ![s.id] = g.file]
                                       ELSE cachefs
                         /\ worker' = [worker EXCEPT ![w] =
                              IF d.err
                              THEN [q EXCEPT !.rtrs = @ - 1]
                              ELSE Classified([q EXCEPT
                                     !.day = d.day,
                                     !.doc = IF fetch THEN <<g.body>> ELSE <<>>])]
  /\ UNCHANGED <<config, driver, queue, qclosed, ids, idsclosed, sink, sent>>

\* os.MkdirAll(dir): on failure the record is abandoned.
MkdirAll(w) ==
  /\ ~crashed
  /\ worker[w].pc = "mkdir"
  /\ \E ok \in BOOLEAN :
       LET r == [worker[w] EXCEPT !.eff = @ \cup {"mkdir"}]
       IN  worker' = [worker EXCEPT ![w] =
             IF ok
             THEN Enter([r EXCEPT !.calls = 0, !.fetches = 0, !.doc = <<>>],
                        "meta", 0)
             ELSE Return(r, "mkdir")]
  /\ UNCHANGED <<config, driver, queue, qclosed, ids, idsclosed, sink,
                 cachefs, crashed, sent>>

\* One pass of a fetch-and-persist loop "for rtrs = retries; rtrs > 0;
\* rtrs--", with the test that follows the loop when it ends.  r is the
\* worker, art the artifact, g the result of the fetch, createOk and copyOk
\* the outcomes of os.Create(fpath) and io.Copy, next the stage after it.
Save(r, art, g, createOk, copyOk, next, k) ==
  IF r.rtrs <= 0
  THEN IF r.rtrs = 0 THEN Return(r, "exhausted") ELSE Enter(r, next, k)
  ELSE IF ~createOk THEN Return(r, "create")
  ELSE LET q == [r EXCEPT !.tries = @ + 1,
                          !.eff = @ \cup {"create", "fetch"}]
       IN  IF g.res = "panic" THEN [q EXCEPT !.fails = @ + 1, !.end = "panic"]
           ELSE IF g.res = "err" THEN [q EXCEPT !.fails = @ + 1, !.rtrs = @ - 1]
           ELSE IF ~copyOk THEN [q EXCEPT !.rtrs = @ - 1]
           ELSE Enter([q EXCEPT !.got = @ \cup {art}], next, k)

\* The metadata loop: scene.GetMeta() goes through the metadata cache.
SaveMeta(w) ==
  /\ ~crashed
  /\ worker[w].pc = "meta"
  /\ LET r == worker[w]
         s == Scene(w)
         live == r.rtrs > 0
     IN  \E g \in getMeta(s), out \in Local :
           LET outOk == out # "create"
               q == Save(r, <<"MTL", 0>>, g, outOk, out = "ok", AfterMeta, 1)
           IN  /\ worker' = [worker EXCEPT ![w] = q]
               /\ crashed' = (q.end = "panic")
               /\ cachefs' = IF live /\ outOk /\ g.res # "panic"
                             THEN [cachefs EXCEPT ![s.id] = g.file]
                             ELSE cachefs
  /\ UNCHANGED <<config, driver, queue, qclosed, ids, idsclosed, sink, sent>>

\* The results getBand and getBQA can have: the file at the cache path of
\* a raster, which the program never writes, may or may not exist; the
\* content of a raster is not looked at.
getRaster ==
  { get(file, <<>>, CacheBands, netOk, TRUE, 0, openOk) :
      file \in {Absent, File(<<>>)}, netOk \in BOOLEAN, openOk \in BOOLEAN }

\* The QA raster loop: scene.GetBQA().
SaveBQA(w) ==
  /\ ~crashed
  /\ worker[w].pc = "bqa"
  /\ \E g \in getRaster, out \in Local :
       LET q == Save(worker[w], <<"BQA", 0>>, g, out # "create", out = "ok",
                     AfterBQA, 1)
       IN  /\ worker' = [worker EXCEPT ![w] = q]
           /\ crashed' = (q.end = "panic")
  /\ UNCHANGED <<config, driver, queue, qclosed, ids, idsclosed, sink,
                 cachefs, sent>>

\* The loop of one band of "for _, band := range bands": scene.GetBand(band).
SaveBand(w) ==
  /\ ~crashed
  /\ worker[w].pc = "band"
  /\ \E g \in getRaster, out \in Local :
       LET r == worker[w]
           q == Save(r, <<"B", bands[r.band]>>, g, out # "create", out = "ok",
                     AfterBand(r.band), r.band + 1)
       IN  /\ worker' = [worker EXCEPT ![w] = q]
           /\ crashed' = (q.end = "panic")
  /\ UNCHANGED <<config, driver, queue, qclosed, ids, idsclosed, sink,
                 cachefs, sent>>

\* A faulty Emit: the worker appends the line to the result file itself.
EmitWritesFile(w) ==
  /\ ~crashed
  /\ worker[w].pc = "emit"
  /\ rw' = Append(rw, [id |-> Scene(w).id, full |-> TRUE, by |-> "worker"])
  /\ sent' = Append(sent, Scene(w).id)
  /\ worker' = [worker EXCEPT ![w] = Return(worker[w], "emitted")]
  /\ UNCHANGED <<config, driver, queue, qclosed, ids, idsclosed, sinkpc,
                 rwclosed, failed, cachefs, crashed>>

\* ids <- scene.Id(): blocks while the channel is full; a send on a closed
\* channel panics.
Emit(w) ==
  /\ ~crashed
  /\ worker[w].pc = "emit"
  /\ LET r == [worker[w] EXCEPT !.eff = @ \cup {"emit"}]
     IN  IF idsclosed
         THEN /\ crashed' = TRUE
              /\ worker' = [worker EXCEPT ![w] = [r EXCEPT !.end = "closed"]]
              /\ UNCHANGED <<ids, sent>>
         ELSE /\ Len(ids) < nworkers
              /\ ids' = Append(ids, Scene(w).id)
              /\ sent' = Append(sent, Scene(w).id)
              /\ worker' = [worker EXCEPT ![w] = Return(r, "emitted")]
              /\ crashed' = crashed
  /\ UNCHANGED <<config, driver, queue, qclosed, idsclosed, sink, cachefs>>

\* ------------------------------------------------------ the specification
Next ==
  \/ Read
  \/ Enqueue
  \/ CloseQueue
  \/ CloseIds
  \/ CloseFile
  \/ SinkWrite
  \/ SinkExit
  \/ \E w \in Workers : Dequeue(w)
  \/ \E w \in Workers : WorkerExit(w)
  \/ \E w \in Workers : Resolve(w)
  \/ \E w \in Workers : Classify(w)
  \/ \E w \in Workers : MkdirAll(w)
  \/ \E w \in Workers : SaveMeta(w)
  \/ \E w \in Workers : SaveBQA(w)
  \/ \E w \in Workers : SaveBand(w)
  \/ \E w \in Workers : Emit(w)

Spec == Init /\ [][Next]_vars

\* The Go scheduler runs every goroutine that can take a step.
FairSpec == Spec /\ WF_vars(Next)

\* ------------------------------------------- HttpRepository.get, on its own
\* One goroutine calls get on the artifact of one scene, again and again,
\* with either value of its cache argument.  worker[w].scene is the scene,
\* worker[w].log the calls made so far: the cache argument, the file at the
\* cache path before and after the call, and what get returned.
MaxCalls == 3

\* The scenes GetScene builds from the sample rows.
Scenes == { GetScene(r) : r \in { x \in Rows : GetScene(x).err = "nil" } }

InitGet ==
  /\ nworkers = 1
  /\ retries = 1
  /\ bqa = FALSE
  /\ bands = <<>>
  /\ from = 1
  /\ to = 1
  /\ nread = 0
  /\ fields = NoRec
  /\ mainpc = "read"
  /\ queue = <<>>
  /\ qclosed = FALSE
  /\ ids = <<>>
  /\ idsclosed = FALSE
  /\ \E s \in Scenes :
       /\ worker = [w \in Workers |-> [pc |-> "call", scene |-> s, log |-> <<>>]]
       /\ \E f \in {Absent, File(Remote(s.baseUrl))} :
            cachefs = [i \in Ids |-> IF i = s.id THEN f ELSE Absent]
  /\ sinkpc = "run"
  /\ rw = <<>>
  /\ rwclosed = FALSE
  /\ crashed = FALSE
  /\ sent = <<>>
  /\ failed = {}

\* r.get(url, cached, cache) under one outcome of http.Get, os.Create,
\* io.Copy and os.Open; res.Body of a nil response ends the process.
CallGet(w) ==
  /\ ~crashed
  /\ worker[w].pc = "call"
  /\ Len(worker[w].log) < MaxCalls
  /\ LET s == worker[w].scene
         remote == Remote(s.baseUrl)
     IN  \E cache \in BOOLEAN, netOk \in BOOLEAN, createOk \in BOOLEAN,
            openOk \in BOOLEAN, copied \in 0..Len(remote) :
           LET g == get(cachefs[s.id], remote, cache, netOk, createOk, copied,
                        openOk)
               e == [cache |-> cache, before |-> cachefs[s.id], res |-> g.res,
                     body |-> g.body, net |-> g.net, after |-> g.file]
           IN  /\ worker' = [worker EXCEPT ![w].log = Append(@, e)]
               /\ cachefs' = [cachefs EXCEPT ![s.id] = g.file]
               /\ crashed' = (g.res = "panic")
  /\ UNCHANGED <<config, driver, queue, qclosed, ids, idsclosed, sink, sent>>

NextGet == \E w \in Workers : CallGet(w)

GetSpec == InitGet /\ [][NextGet]_vars

\* --------------------------------------------- an endpoint that is silent
\* main puts the -timeout flag in repo.Client; get sends its request with
\* http.Get, which goes through http.DefaultClient, whose Timeout is zero:
\* no limit.
RepoClient == [Timeout |-> "timeout"]
DefaultClient == [Timeout |-> "0"]

\* The client that carries the request of get.
GetClient == DefaultClient

\* The pipeline when all requested artifacts are fetched once per attempt.
InitHang ==
  /\ Init
  /\ retries = 1
  /\ bqa
  /\ bands # <<>>

\* http.Get(url) on an endpoint that never responds.  With a Timeout the
\* request ends with an error, which is the failed http.Get of get; without
\* one the call never returns and the goroutine stays in it.
Hang(w) ==
  /\ ~crashed
  /\ GetClient.Timeout = "0"
  /\ LET r == worker[w]
     IN  /\ r.pc \in {"classify", "meta", "bqa", "band"}
         /\ r.rtrs > 0
         /\ r.pc = "classify" => r.meta = <<>>
         /\ r.pc \in {"classify", "meta"} => ~cachefs[Scene(w).id].exists
         /\ worker' = [worker EXCEPT ![w] = [r EXCEPT !.pc = "hung"]]
  /\ UNCHANGED <<config, driver, queue, qclosed, ids, idsclosed, sink,
                 cachefs, crashed, sent>>

HangNext ==
  \/ Next
  \/ \E w \in Workers : Hang(w)

HangSpec == InitHang /\ [][HangNext]_vars

\* ------------------------------------- HttpRepository.get, step by step
\* Two goroutines call get(url, cached, true) for the artifact of the same
\* scene, which is not cached; each system call of get is a step.
\* worker[w]: pc is the call the goroutine is about to make, off the number
\* of lines its io.Copy has written, body what its caller has read from the
\* returned stream, res the result of get, fault whether one of its calls
\* failed.
InitRace ==
  /\ nworkers = 2
  /\ retries = 1
  /\ bqa = FALSE
  /\ bands = <<>>
  /\ from = 1
  /\ to = 1
  /\ nread = 0
  /\ fields = NoRec
  /\ mainpc = "read"
  /\ queue = <<>>
  /\ qclosed = FALSE
  /\ ids = <<>>
  /\ idsclosed = FALSE
  /\ \E s \in Scenes :
       worker = [w \in Workers |->
                   [pc |-> "stat", scene |-> s, off |-> 0, body |-> <<>>,
                    res |-> "none", fault |-> FALSE]]
  /\ sinkpc = "run"
  /\ rw = <<>>
  /\ rwclosed = FALSE
  /\ cachefs = [i \in Ids |-> Absent]
  /\ crashed = FALSE
  /\ sent = <<>>
  /\ failed = {}

\* What a step of get leaves alone.
outside == <<config, driver, queue, qclosed, ids, idsclosed, sink, crashed,
             sent>>

\* get returns an error.
Fail(r) == [r EXCEPT !.pc = "ret", !.res = "err", !.fault = TRUE]

\* The zero bytes of a part of a file that was never written.
Hole == <<"", "">>

\* A write of one line at offset off into a file holding data.
WriteAt(data, off, line) ==
  [i \in 1..(IF Len(data) > off THEN Len(data) ELSE off + 1) |->
     IF i = off + 1 THEN line
     ELSE IF i <= Len(data) THEN data[i] ELSE Hole]

\* _, err = os.Stat(cached); if os.IsNotExist(err)
Stat(w) ==
  /\ worker[w].pc = "stat"
  /\ worker' = [worker EXCEPT ![w].pc =
                  IF cachefs[worker[w].scene.id].exists THEN "open" ELSE "http"]
  /\ UNCHANGED <<outside, cachefs>>

\* res, err := http.Get(url)
HttpGet(w) ==
  /\ worker[w].pc = "http"
  /\ \E netOk \in BOOLEAN :
       worker' = [worker EXCEPT ![w] =
                    IF netOk THEN [@ EXCEPT !.pc = "create"] ELSE Fail(@)]
  /\ UNCHANGED <<outside, cachefs>>

\* out, err := os.Create(cached): the file is created or truncated.
Create(w) ==
  /\ worker[w].pc = "create"
  /\ \E createOk \in BOOLEAN :
       IF createOk
       THEN /\ cachefs' = [cachefs EXCEPT ![worker[w].scene.id] = File(<<>>)]
            /\ worker' = [worker EXCEPT ![w].pc = "copy", ![w].off = 0]
       ELSE /\ worker' = [worker EXCEPT ![w] = Fail(@)]
            /\ UNCHANGED cachefs
  /\ UNCHANGED outside

\* _, err = io.Copy(out, res.Body): the next line is written at the offset
\* of out, the copy ends at the end of the body, or it fails (logged only).
Copy(w) ==
  /\ worker[w].pc = "copy"
  /\ LET r == worker[w]
         remote == Remote(r.scene.baseUrl)
     IN  \/ /\ r.off < Len(remote)
            /\ cachefs' = [cachefs EXCEPT ![r.scene.id].data =
                             WriteAt(@, r.off, remote[r.off + 1])]
            /\ worker' = [worker EXCEPT ![w].off = r.off + 1]
         \/ /\ r.off = Len(remote)
            /\ worker' = [worker EXCEPT ![w].pc = "open"]
            /\ UNCHANGED cachefs
         \/ /\ r.off < Len(remote)
            /\ worker' = [worker EXCEPT ![w].pc = "open", ![w].fault = TRUE]
            /\ UNCHANGED cachefs
  /\ UNCHANGED outside

\* return os.Open(cached)
Open(w) ==
  /\ worker[w].pc = "open"
  /\ \E openOk \in BOOLEAN :
       worker' = [worker EXCEPT ![w] =
                    IF openOk THEN [@ EXCEPT !.pc = "read", !.res = "ok"]
                    ELSE Fail(@)]
  /\ UNCHANGED <<outside, cachefs>>

\* The caller reads the returned stream: the next line of the file, or the
\* end of the file as it is now.
ReadStream(w) ==
  /\ worker[w].pc = "read"
  /\ LET r == worker[w]
         data == cachefs[r.scene.id].data
     IN  worker' = [worker EXCEPT ![w] =
                      IF Len(r.body) < Len(data)
                      THEN [r EXCEPT !.body = Append(@, data[Len(r.body) + 1])]
                      ELSE [r EXCEPT !.pc = "ret"]]
  /\ UNCHANGED <<outside, cachefs>>

RaceNext ==
  \/ \E w \in Workers : Stat(w)
  \/ \E w \in Workers : HttpGet(w)
  \/ \E w \in Workers : Create(w)
  \/ \E w \in Workers : Copy(w)
  \/ \E w \in Workers : Open(w)
  \/ \E w \in Workers : ReadStream(w)

RaceSpec == InitRace /\ [][RaceNext]_vars

\* --------------------------------------------- httpScene.IsDay, on its own
\* Each goroutine holds one Scene instance and calls IsDay on it again and
\* again.  worker[w]: scene and meta are the instance, log the calls made:
\* whether the call fetched the metadata, and the error and flag it
\* returned.
InitIsDay ==
  /\ nworkers = 2
  /\ retries = 1
  /\ bqa = FALSE
  /\ bands = <<>>
  /\ from = 1
  /\ to = 1
  /\ nread = 0
  /\ fields = NoRec
  /\ mainpc = "read"
  /\ queue = <<>>
  /\ qclosed = FALSE
  /\ ids = <<>>
  /\ idsclosed = FALSE
  /\ worker \in [Workers -> { [pc |-> "call", scene |-> s, meta |-> <<>>,
                               log |-> <<>>] : s \in Scenes }]
  /\ sinkpc = "run"
  /\ rw = <<>>
  /\ rwclosed = FALSE
  /\ cachefs = [i \in Ids |-> Absent]
  /\ crashed = FALSE
  /\ sent = <<>>
  /\ failed = {}

\* scene.IsDay() under one outcome of the GetMeta it may make.
CallIsDay(w) ==
  /\ ~crashed
  /\ worker[w].pc = "call"
  /\ Len(worker[w].log) < MaxCalls
  /\ LET r == worker[w]
         fetch == r.meta = <<>>
     IN  \E g \in getMeta(r.scene) :
           LET d == IsDay(r.meta, g)
               e == [fetch |-> fetch, err |-> d.err, day |-> d.day]
           IN  /\ worker' = [worker EXCEPT ![w].meta = d.meta,
                                           ![w].log = Append(@, e)]
               /\ cachefs' = IF fetch /\ g.res # "panic"
                             THEN [cachefs EXCEPT ![r.scene.id] = g.file]
                             ELSE cachefs
               /\ crashed' = (fetch /\ g.res = "panic")
  /\ UNCHANGED <<config, driver, queue, qclosed, ids, idsclosed, sink, sent>>

IsDayNext == \E w \in Workers : CallIsDay(w)

IsDaySpec == InitIsDay /\ [][IsDayNext]_vars

\* ------------------------------------------------------- a longer catalog
\* The pipeline on a catalog of up to MaxLongRows rows, each a night scene
\* in the window or a row of an unknown level, when only the metadata is
\* requested and one attempt is allowed.
MaxLongRows == 5

LongRows ==
  { Row(1, "d1", "1.5", "L1T", "uN/index.html"),
    Row(1, "d1", "1.5", "L2", "uN/index.html") }

InitLong ==
  /\ Init
  /\ retries = 1
  /\ ~bqa
  /\ bands = <<>>

ReadLong == ReadFrom(LongRows, MaxLongRows)

LongNext ==
  \/ ReadLong
  \/ Enqueue
  \/ CloseQueue
  \/ CloseIds
  \/ CloseFile
  \/ SinkWrite
  \/ SinkExit
  \/ \E w \in Workers : Dequeue(w)
  \/ \E w \in Workers : WorkerExit(w)
  \/ \E w \in Workers : Resolve(w)
  \/ \E w \in Workers : Classify(w)
  \/ \E w \in Workers : MkdirAll(w)
  \/ \E w \in Workers : SaveMeta(w)
  \/ \E w \in Workers : Emit(w)

LongSpec == InitLong /\ [][LongNext]_vars

\* ------------------------------------------------------ helper notions
\* The identifiers of the complete lines of the result file, in file order.
RECURSIVE FullIds(_)
FullIds(lines) ==
  IF lines = <<>> THEN <<>>
  ELSE IF Head(lines).full
       THEN <<Head(lines).id>> \o FullIds(Tail(lines))
       ELSE FullIds(Tail(lines))

\* The sends, in order, without those at the positions in drop.
RECURSIVE Without(_, _, _)
Without(seq, drop, i) ==
  IF i > Len(seq) THEN <<>>
  ELSE IF i \in drop THEN Without(seq, drop, i + 1)
       ELSE <<seq[i]>> \o Without(seq, drop, i + 1)

\* How often x occurs in seq.
Count(seq, x) == Cardinality({i \in DOMAIN seq : seq[i] = x})

\* The end of the ordered shutdown.
Done ==
  /\ mainpc = "done"
  /\ queue = <<>>
  /\ ids = <<>>
  /\ \A w \in Workers : worker[w].pc = "exit"
  /\ sinkpc = "exit"
  /\ rwclosed

\* The stages of the closure after the record resolved and passed the filter.
Stages == {"classify", "mkdir", "meta", "bqa", "band", "emit"}
Saving == {"meta", "bqa", "band"}

\* ----------------------------------------------------------------- claims

C3_FailureIsolation ==
  /\ ~crashed
  /\ \A w \in Workers : worker[w].end # "panic"

\* C4: the pipeline terminates without deadlock: every reachable state is
\* the end of the shutdown (queue drained, workers and sink finished, file
\* closed) or has a goroutine that can take a step; every step makes
\* progress, so under fair scheduling the end of the shutdown is reached.
C4_Termination == Done \/ ENABLED Next

\* C5: an identifier is sent to the results channel only if every requested
\* artifact was saved by an attempt whose file creation, fetch and copy all
\* succeeded.
C5_NoPartialScene ==
  \A w \in Workers : worker[w].pc = "emit" => Artifacts \subseteq worker[w].got

\* C6: a fetch-and-persist loop whose every attempt failed in the fetch has
\* made exactly `retries` attempts when it is over.
C6_ExactlyRetries ==
  \A w \in Workers :
    LET r == worker[w]
    IN  ( /\ r.pc \in Saving
          /\ r.rtrs = 0 \/ r.end = "panic"
          /\ r.tries > 0
          /\ r.fails = r.tries )
        => r.tries = retries

\* C7: every call of IsDay in the classification loop fetches the metadata,
\* a scene that passed the classification was classified from the document
\* the successful call fetched, and the loop gives up only after `retries`
\* failed calls.
C7_ClassificationRetry ==
  \A w \in Workers :
    LET r == worker[w]
    IN  /\ r.pc = "classify" => r.calls = r.fetches
        /\ r.pc = "classify" /\ r.rtrs = 0 => r.calls = retries
        /\ r.pc = "mkdir" /\ r.calls > 0 =>
             /\ r.calls = r.fetches
             /\ r.doc # <<>>
             /\ r.day = ScanDay(r.doc[1])

\* C8: for a scene whose metadata file has a non-negative SUN_ELEVATION, no
\* file is created in the download directory and the identifier is not
\* sent (stated for the positive retry settings).
C8_DaytimeNeverDownloaded ==
  \A w \in Workers :
    LET r == worker[w]
    IN  ( /\ retries >= 1
          /\ r.pc \in Stages
          /\ ScanDay(Remote(Scene(w).baseUrl)) )
        => /\ "create" \notin r.eff
           /\ r.pc \notin Saving \cup {"emit"}

\* C9: a valid record whose acquisition time is before `from` or after `to`
\* is dropped by the date filter: the worker holding it never is at the
\* classification, the directory creation, a fetch or the send, has
\* performed no effect for it, and ends it as filtered.
C9_DateFilter ==
  \A w \in Workers :
    LET r == worker[w]
        t == ParseTime(r.rec.ts)
    IN  ( /\ r.rec # NoRec
          /\ ~t.err
          /\ ~ParseFloat(r.rec.cc).err
          /\ r.rec.level \in {"L1T", "L1GT"}
          /\ t.t < from \/ t.t > to )
        => /\ r.pc \in {"resolve", "idle"}
           /\ r.eff = {}
           /\ r.got = {}
           /\ r.pc = "idle" => r.end = "filtered"

\* C9 witness: a worker dropped a record acquired after `to`.
C9_Witness ==
  \E w \in Workers :
    /\ worker[w].pc = "idle"
    /\ worker[w].end = "filtered"
    /\ ParseTime(worker[w].rec.ts).t > to

GetCalls ==
  UNION { { [e |-> worker[w].log[k],
             remote |-> Remote(worker[w].scene.baseUrl)] :
              k \in DOMAIN worker[w].log } : w \in Workers }

\* C11: with caching disabled, every call of get that returns has made a
\* network read and has left the cache path as it was, and the stream it
\* returns is the network stream, also when a file exists at the cache path.
C11_UncachedAlwaysNetwork ==
  \A c \in { x \in GetCalls : ~x.e.cache /\ x.e.res # "panic" } :
    /\ c.e.net
    /\ c.e.after = c.e.before
    /\ c.e.res = "ok" => c.e.body = c.remote

\* C12: with caching enabled, a call of get that finds a file at the cache
\* path makes no network request and leaves the file as it is, and the
\* stream it returns holds the content of that file; any two such calls
\* return the same content.
C12_CacheIdempotence ==
  LET hits == { x \in GetCalls : x.e.cache /\ x.e.before.exists }
  IN  /\ \A c \in hits :
           /\ ~c.e.net
           /\ c.e.after = c.e.before
           /\ c.e.res \in {"ok", "err"}
           /\ c.e.res = "ok" => c.e.body = c.e.before.data
      /\ \A c, d \in hits :
           c.e.res = "ok" /\ d.e.res = "ok" => c.e.body = d.e.body

\* C12 witness: a download filled the cache and two later calls were served
\* from the file.
C12_Witness ==
  \E w \in Workers :
    LET log == worker[w].log
    IN  /\ Len(log) = 3
        /\ log[1].cache /\ ~log[1].before.exists /\ log[1].net
        /\ log[1].res = "ok"
        /\ \A k \in 2..3 : /\ log[k].cache /\ log[k].before.exists
                           /\ log[k].res = "ok"
                           /\ log[k].body = log[1].after.data
                           /\ log[k].body # <<>>

\* C19: with caching enabled, a call of get that returns without error
\* leaves the complete response body in the file at the cache path and
\* returns it, and no call leaves a file there that holds less: every cache
\* hit returns the complete artifact.
C19_CacheIntegrity ==
  \A c \in { x \in GetCalls : x.e.cache } :
    /\ c.e.res = "ok" => c.e.after = File(c.remote) /\ c.e.body = c.remote
    /\ c.e.after.exists => c.e.after.data = c.remote

\* C13: every request of get is cut off by the configured timeout: no
\* goroutine stays in a request for ever, and the pipeline always reaches
\* the end of the shutdown or has a goroutine that can take a step.
C13_NoIndefiniteBlocking ==
  /\ \A w \in Workers : worker[w].pc # "hung"
  /\ crashed \/ Done \/ ENABLED HangNext

\* C14: when no call of either goroutine fails, under every interleaving of
\* the steps of the two calls each get returns a stream from which its
\* caller reads the complete document, and when both have finished the
\* file at the cache path holds the complete document.
C14_HarmlessRace ==
  (\A w \in Workers : ~worker[w].fault) =>
    /\ \A w \in Workers :
         worker[w].pc = "ret" =>
           /\ worker[w].res = "ok"
           /\ worker[w].body = Remote(worker[w].scene.baseUrl)
    /\ (\A w \in Workers : worker[w].pc = "ret") =>
         \A w \in Workers :
           cachefs[worker[w].scene.id] = File(Remote(worker[w].scene.baseUrl))

\* C15: a failure of os.Create(fpath) in a fetch-and-persist loop is one
\* failed attempt like any other: the worker abandons the record for it
\* only when it was the last of the `retries` attempts.
C15_CreateFailureRetried ==
  [][\A w \in Workers :
       (worker[w].pc \in Saving /\ worker'[w].end = "create")
         => worker[w].rtrs = 1]_vars

\* C16: over every sequence of IsDay calls on one Scene instance, at most
\* one call fetches the metadata, and after a call that returned a flag
\* without error every later call returns the same flag, without error and
\* without fetching.
C16_MemoizedClassification ==
  \A w \in Workers :
    LET log == worker[w].log
    IN  /\ Cardinality({k \in DOMAIN log : log[k].fetch}) <= 1
        /\ \A j, k \in DOMAIN log :
             (j < k /\ ~log[j].err) =>
               /\ ~log[k].fetch
               /\ ~log[k].err
               /\ log[k].day = log[j].day

\* C16 witness: a first call fetched the metadata of a daytime scene and
\* two more calls followed.
C16_Witness ==
  \E w \in Workers :
    LET log == worker[w].log
    IN  /\ Len(log) = 3
        /\ log[1].fetch /\ ~log[1].err /\ log[1].day
        /\ log[3].day

\* The records read from the catalog and not yet fully processed: the one
\* the driver holds, those in the queue, those the workers are busy with.
InFlight ==
  (IF fields # NoRec THEN 1 ELSE 0) + Len(queue)
    + Cardinality({w \in Workers : worker[w].pc \notin {"idle", "exit"}})

\* C17: the queue never holds more than nworkers records and the results
\* channel never more than nworkers identifiers; the driver can enqueue
\* only while the queue holds fewer than nworkers records; and the records
\* read and not yet fully processed never number more than 2*nworkers + 1.
C17_Backpressure ==
  /\ Len(queue) <= nworkers
  /\ Len(ids) <= nworkers
  /\ ENABLED Enqueue => Len(queue) < nworkers
  /\ InFlight <= 2 * nworkers + 1

\* C17 witness: the driver is blocked on a full queue with every worker
\* busy and the results channel full.
C17_Witness ==
  /\ mainpc = "send"
  /\ ~ENABLED Enqueue
  /\ Len(queue) = nworkers
  /\ Len(ids) = nworkers
  /\ InFlight = 2 * nworkers + 1

\* C18: a row the driver read goes into the queue once, at its end, and
\* leaves the driver's hands only that way; a record leaves the queue only
\* at its head, into the hands of exactly one worker, and a worker takes up
\* a record only that way; a malformed row is counted and the driver reads
\* on; and when the driver is done no record is left with the driver, in
\* the queue or with a worker.
C18_ExactlyOnce ==
  /\ [][ /\ (fields # NoRec /\ fields' # fields) =>
              /\ queue' = Append(queue, fields)
              /\ fields' = NoRec
         /\ (fields = NoRec /\ fields' # NoRec) =>
              /\ nread' = nread + 1
              /\ queue' = queue
         /\ (nread' # nread /\ fields' = NoRec) =>
              /\ mainpc' = "read"
              /\ queue' = queue
         /\ queue' # queue =>
              \/ /\ fields # NoRec
                 /\ queue' = Append(queue, fields)
                 /\ worker' = worker
              \/ /\ queue # <<>>
                 /\ queue' = Tail(queue)
                 /\ fields' = fields
                 /\ \E w \in Workers :
                      /\ worker[w].pc = "idle"
                      /\ worker'[w].pc = "resolve"
                      /\ worker'[w].rec = Head(queue)
                      /\ \A v \in Workers \ {w} : worker'[v] = worker[v]
         /\ \A w \in Workers :
              (worker'[w].pc = "resolve" /\ worker[w].pc # "resolve") =>
                /\ queue # <<>>
                /\ worker'[w].rec = Head(queue)
                /\ queue' = Tail(queue)
       ]_vars
  /\ [](mainpc = "done" =>
          /\ fields = NoRec
          /\ queue = <<>>
          /\ \A w \in Workers : worker[w].pc = "exit")

\* C18 witness: two workers shared a catalog of MaxLongRows rows, and the
\* shutdown ended with three of them sent.
C18_Witness ==
  /\ Done
  /\ nworkers = 2
  /\ nread = MaxLongRows
  /\ Len(sent) = 3

\* C20: when `retries` is zero or negative no worker ever calls IsDay or
\* fetches an artifact for any record, and no identifier is ever sent to
\* the results channel.
C20_NonPositiveRetries ==
  retries <= 0 =>
    /\ sent = <<>>
    /\ \A w \in Workers :
         /\ worker[w].eff \cap {"classify", "fetch"} = {}
         /\ worker[w].pc # "emit"
         /\ worker[w].end # "emitted"

====
